---- MODULE Spec2Model ----
(***************************************************************************)
(* Session-state synchronisation of the agent-chat frontend:               *)
(*   - AgentProvider (contexts/AgentContext.tsx): the active session id,   *)
(*     its message list, the session summary list, the organisation        *)
(*     settings and the localStorage key lastSessionId;                    *)
(*   - the chat page (app/page.tsx): mount-time initialisation and         *)
(*     handleSubmit;                                                       *)
(*   - the backend, as the HTTP interface the client talks to.             *)
(*                                                                         *)
(* Every call of an async function is a task.  A task runs synchronously   *)
(* up to its first await (the "call" action) and then one action per       *)
(* continuation (JavaScript runs a continuation to completion).  A task    *)
(* keeps the values its closure captured when it was called (sessionId,    *)
(* currentSettings): React state read inside an async function is the      *)
(* value of the render the function was created in.                        *)
(***************************************************************************)
EXTENDS Integers, Sequences, FiniteSets, TLC

\* ---------------------------------------------------------------- bounds
MaxTasks == 4        \* async calls in one run of the page (2 of them at mount)
MaxCalls == 3        \* calls of the context's operations in one run
MaxIds == 4          \* session ids the backend can hand out
InitialSessions == 2 \* sessions that exist on the backend at page load
MaxUpdates == 2      \* calls of the settings mutators in one run
MaxMounts == 2       \* times the settings panel is opened in one run
MaxItems == 2        \* background items the user types in one panel
MaxScrapes == 2      \* websites scraped in one run

NULL == 0
TaskIds == 1..MaxTasks
Ids == 1..MaxIds

\* ---------------------------------------------------------------- messages
Texts == {"t1", "t2"}

Msg(role, content) == [role |-> role, content |-> content]

UserMessage(text) == Msg("user", text)

\* the reply the agent gives to a text
Reply(text) == IF text = "t1" THEN "r1" ELSE "r2"

AssistantMessage(r) == Msg("assistant", r)

UnableMessage == Msg("assistant", "Unable to initialize chat session. Please refresh the page and try again.")

ExpiredMessage == Msg("assistant", "Your session has expired. Creating a new session...")

NewSessionMessage == Msg("assistant", "New session created. Please try your message again.")

GenericErrorMessage == Msg("assistant", "Sorry, there was an error processing your message")

\* the history of a session that exists at page load
History(id) == <<Msg("assistant", IF id = 1 THEN "h1" ELSE "h2")>>

\* ---------------------------------------------------------------- settings
defaultOrganizationSettings ==
    [name |-> "Agentica AI", personality |-> "Balanced", background |-> <<>>,
     tools |-> [background_search |-> TRUE, memory_storage |-> TRUE,
                memory_retrieval |-> TRUE, web_search |-> TRUE]]

Names == {"Agentica AI", "Acme"}
Personalities == {"Balanced", "Creative"}
Backgrounds == {<<>>, <<"bg">>}

VARIABLES
    sessionId,        \* active session id, NULL when none
    messages,         \* message list of the context
    sessions,         \* session summary list (session ids, in list order)
    isInitialized,
    isLoading,
    currentSettings,  \* currentSettings.organization
    lastSessionId,    \* localStorage key lastSessionId, NULL when absent
    srvSessions,      \* backend: ids of the sessions that exist
    srvMsgs,          \* backend: message history of every session
    nextId,           \* backend: next session id to hand out
    personalityPresets, \* TRUE once the presets were fetched
    pageMessages,     \* the chat page's local message list
    pageIsLoading,    \* the chat page's local isLoading
    tasks,            \* async calls, in the order they were started
    showSettings,     \* the chat page shows the settings panel
    settingsMount,    \* how many times the settings panel was mounted
    selectedPersonality, \* settings panel: the personality selected
    customInstructions,  \* settings panel: the custom prompt
    websiteUrl,       \* settings panel: the URL to scrape
    backgroundItems,  \* settings panel: the background item list
    isScraping,       \* settings panel: a scrape is in progress
    scrapeError,      \* settings panel: the scrape error shown, "" when none
    enabledTools,     \* settings panel: the tool toggles
    storage,          \* localStorage keys aiPersonality, customPrompt,
                      \* backgroundTexts, enabledTools: a function of the
                      \* keys that are present
    isDeleting,       \* sidebar: id of the session being deleted, NULL when none
    apiCall,          \* the last call of an API client operation and its outcome
    nUpdates,         \* calls of the settings mutators so far
    pre               \* provider state and local storage when the last call
                      \* that found no other call running was made

ctxVars == <<sessionId, messages, sessions, isInitialized, isLoading, currentSettings>>
srvVars == <<srvSessions, srvMsgs, nextId>>
pageVars == <<pageMessages, pageIsLoading>>
panelVars == <<showSettings, settingsMount, selectedPersonality, customInstructions,
               websiteUrl, backgroundItems, isScraping, scrapeError, enabledTools,
               storage>>
uiVars == <<panelVars, isDeleting, apiCall>>
auxVars == <<nUpdates, pre>>
vars == <<sessionId, messages, sessions, isInitialized, isLoading, currentSettings,
          lastSessionId, srvSessions, srvMsgs, nextId, personalityPresets,
          pageMessages, pageIsLoading, tasks, showSettings, settingsMount,
          selectedPersonality, customInstructions, websiteUrl, backgroundItems,
          isScraping, scrapeError, enabledTools, storage, isDeleting, apiCall,
          nUpdates, pre>>

\* ---------------------------------------------------------------- tasks
NoTask == [kind |-> "none", pc |-> "idle", arg |-> NULL, text |-> "",
           sid |-> NULL, cs |-> defaultOrganizationSettings,
           res |-> NULL, got |-> <<>>, ok |-> FALSE, reqs |-> <<>>,
           resps |-> <<>>, caller |-> "", org |-> <<>>]

Req(op, id, text) == [op |-> op, sid |-> id, text |-> text]

Started == {t \in TaskIds : tasks[t].kind # "none"}

Running == {t \in TaskIds : tasks[t].kind # "none" /\ tasks[t].pc # "done"}

NextTask == Cardinality(Started) + 1

CanStart == NextTask <= MaxCalls

\* the state of the provider (and local storage) as one record, so that the
\* statements of one continuation compose; touched: setMessages or setSessionId
\* was called, so the page's effect on [agentMessages, sessionId] runs
St == [sessionId |-> sessionId, messages |-> messages, sessions |-> sessions,
       isInitialized |-> isInitialized, isLoading |-> isLoading,
       currentSettings |-> currentSettings, lastSessionId |-> lastSessionId,
       touched |-> FALSE]

setMessages(st, m) == [st EXCEPT !.messages = m, !.touched = TRUE]

setSessionId(st, id) == [st EXCEPT !.sessionId = id, !.touched = TRUE]

Commit(st) ==
    /\ sessionId' = st.sessionId
    /\ messages' = st.messages
    /\ sessions' = st.sessions
    /\ isInitialized' = st.isInitialized
    /\ isLoading' = st.isLoading
    /\ currentSettings' = st.currentSettings
    /\ lastSessionId' = st.lastSessionId
    /\ pageMessages' = IF st.touched THEN st.messages ELSE pageMessages

\* a new task, with the values its closure captures
NewTask(kind, pc, arg, text, cs, reqs) ==
    [NoTask EXCEPT !.kind = kind, !.pc = pc, !.arg = arg, !.text = text,
                   !.sid = sessionId, !.cs = cs, !.reqs = reqs,
                   !.org = IF reqs[1].op = "POST /sessions" THEN <<cs>> ELSE <<>>]

Start(task) ==
    /\ tasks' = [tasks EXCEPT ![NextTask] = task]
    /\ pre' = IF Running = {} THEN St ELSE pre
    /\ nUpdates' = nUpdates

\* ---------------------------------------------------------------- backend
RECURSIVE SeqOfSet(_)
SeqOfSet(S) ==
    IF S = {} THEN <<>>
    ELSE LET m == CHOOSE x \in S : \A y \in S : x <= y
         IN <<m>> \o SeqOfSet(S \ {m})

\* POST /sessions answered with a fresh session id
SrvCreateSession ==
    /\ nextId <= MaxIds
    /\ srvSessions' = srvSessions \cup {nextId}
    /\ srvMsgs' = [srvMsgs EXCEPT ![nextId] = <<>>]
    /\ nextId' = nextId + 1

\* POST /chat answered with the agent's reply
SrvChat(id, text) ==
    /\ id \in srvSessions
    /\ srvMsgs' = [srvMsgs EXCEPT ![id] = @ \o <<UserMessage(text), AssistantMessage(Reply(text))>>]
    /\ UNCHANGED <<uiVars, srvSessions, nextId>>

\* DELETE /sessions/{id} answered with success
SrvDelete(id) ==
    /\ id \in srvSessions
    /\ srvSessions' = srvSessions \ {id}
    /\ UNCHANGED <<uiVars, srvMsgs, nextId>>

\* ---------------------------------------------------------------- API client
\* status codes an exchange can end with
Statuses == {200, 204, 404, 500}

\* fetch rejected: no response at all (network failure)
NoResponse == [fetched |-> FALSE, status |-> NULL, parses |-> FALSE]

\* what fetch gives an operation of the API client: a response with a status
\* and a body that is JSON or not, or no response
Responses == [fetched : {TRUE}, status : Statuses, parses : BOOLEAN] \cup {NoResponse}

\* Response.ok
response_ok(resp) == resp.status \in 200..299

Throws == [threw |-> TRUE, value |-> NULL]

Returns(v) == [threw |-> FALSE, value |-> v]

\* fetch, throw when the status is not ok, return the parsed body
FetchJson(resp, body) ==
    IF resp.fetched /\ response_ok(resp) /\ resp.parses THEN Returns(body) ELSE Throws

createSession(resp, body) == FetchJson(resp, body)

sendMessage(resp, body) == FetchJson(resp, body)

getSession(resp, body) == FetchJson(resp, body)

getPersonalityPresets(resp, body) == FetchJson(resp, body)

\* the session_id "1", "2", "3" of a mock session, which is not an id the
\* backend hands out
MockId(n) == MaxIds + n

\* getAllSessions' fallback list
MockSessions == <<MockId(1), MockId(2), MockId(3)>>

\* mutant: a failure is answered with an empty list
getAllSessions_EmptyFallback(resp, body) ==
    IF FetchJson(resp, body).threw THEN Returns(<<>>) ELSE FetchJson(resp, body)

\* every failure is caught and answered with the mock list
getAllSessions(resp, body) ==
    IF FetchJson(resp, body).threw THEN Returns(MockSessions) ELSE FetchJson(resp, body)

\* the body is not read; every failure is caught and answered with success false
deleteSession(resp) ==
    IF resp.fetched /\ response_ok(resp) THEN Returns([success |-> TRUE])
    ELSE Returns([success |-> FALSE])

scrapeWebsite(resp, body) == FetchJson(resp, body)

\* what a caller sees of an answered request
Outcome(result) == IF result.threw THEN "failed" ELSE "ok"

\* ---------------------------------------------------------------- initializeSession
initializeSessionStart(st) == [st EXCEPT !.isLoading = TRUE]

\* mutant: the new session id is not written to local storage
initializeSessionResolved_NotStored(st, settings, id) ==
    LET s2 == setMessages(setSessionId(st, id), <<>>)
    IN [s2 EXCEPT !.currentSettings = settings, !.isInitialized = TRUE,
                  !.isLoading = FALSE]

\* mutant: the new session id is stored but not made the active one
initializeSessionResolved_KeepsId(st, settings, id) ==
    LET s1 == [st EXCEPT !.lastSessionId = id]
        s2 == setMessages(s1, <<>>)
    IN [s2 EXCEPT !.currentSettings = settings, !.isInitialized = TRUE,
                  !.isLoading = FALSE]

initializeSessionResolved(st, settings, id) ==
    LET s1 == [st EXCEPT !.lastSessionId = id]
        s2 == setMessages(setSessionId(s1, id), <<>>)
    IN [s2 EXCEPT !.currentSettings = settings, !.isInitialized = TRUE,
                  !.isLoading = FALSE]

\* mutant: a failed createSession drops the active session
initializeSessionRejected_DropsSession(st) ==
    [setMessages(setSessionId(st, NULL), <<>>) EXCEPT !.isInitialized = FALSE,
                                                      !.lastSessionId = NULL,
                                                      !.isLoading = FALSE]

initializeSessionRejected(st) == [st EXCEPT !.isLoading = FALSE]

\* the continuation of initializeSession after createSession answered
initializeSessionDone(st, settings, ok, id) ==
    IF ok THEN initializeSessionResolved(st, settings, id)
    ELSE initializeSessionRejected(st)

\* the settings panel's tool toggles before anything was saved
defaultToolSettings ==
    [backgroundSearch |-> TRUE, memoryStorage |-> TRUE, memoryRetrieval |-> TRUE,
     webSearch |-> FALSE]

\* no API client operation was called yet
NoCall == [op |-> "none", resp |-> NULL, result |-> NULL]

\* localStorage.getItem(key) is not null
hasItem(store, key) == key \in DOMAIN store

\* localStorage.setItem(key, value)
setItem(store, key, value) ==
    [k \in DOMAIN store \cup {key} |-> IF k = key THEN value ELSE store[k]]

\* localStorage.removeItem(key)
removeItem(store, key) == [k \in DOMAIN store \ {key} |-> store[k]]

\* the components other than the provider and the chat page before any use:
\* the settings panel is not shown and nothing is saved in local storage
InitUI ==
    /\ showSettings = FALSE
    /\ settingsMount = 0
    /\ selectedPersonality = "Balanced"
    /\ customInstructions = ""
    /\ websiteUrl = ""
    /\ backgroundItems = <<>>
    /\ isScraping = FALSE
    /\ scrapeError = ""
    /\ enabledTools = defaultToolSettings
    /\ storage = [key \in {} |-> ""]
    /\ isDeleting = NULL
    /\ apiCall = NoCall

Init ==
    /\ sessionId = NULL
    /\ messages = <<>>
    /\ sessions = <<>>
    /\ isInitialized = FALSE
    /\ isLoading = FALSE
    /\ currentSettings = defaultOrganizationSettings
    /\ lastSessionId \in {NULL, 1}
    /\ srvSessions = 1..InitialSessions
    /\ srvMsgs = [i \in Ids |-> IF i <= InitialSessions THEN History(i) ELSE <<>>]
    /\ nextId = InitialSessions + 1
    /\ personalityPresets = FALSE
    /\ pageMessages = <<>>
    /\ pageIsLoading = FALSE
    /\ tasks = [t \in TaskIds |-> NoTask]
    /\ InitUI
    /\ nUpdates = 0
    /\ pre = [St EXCEPT !.sessionId = NULL]

\* initializeSession(settings), up to the await of createSession
initializeSession(settings) ==
    /\ CanStart
    /\ Commit(initializeSessionStart(St))
    /\ Start(NewTask("init", "create", NULL, "", settings, <<Req("POST /sessions", NULL, "")>>))
    /\ UNCHANGED <<uiVars, srvVars, personalityPresets, pageIsLoading>>

\* createSession answered: the rest of initializeSession
initializeSession_createSession(t) ==
    /\ tasks[t].kind = "init" /\ tasks[t].pc = "create"
    /\ \E ok \in BOOLEAN :
        /\ IF ok THEN SrvCreateSession ELSE UNCHANGED srvVars
        /\ Commit(initializeSessionDone(St, tasks[t].cs, ok, nextId))
        /\ tasks' = [tasks EXCEPT ![t].pc = "done", ![t].ok = ok,
                                  ![t].res = IF ok THEN nextId ELSE NULL,
                                  ![t].resps = Append(@, IF ok THEN "ok" ELSE "failed")]
    /\ UNCHANGED <<uiVars, personalityPresets, pageIsLoading, auxVars>>

\* ---------------------------------------------------------------- sendUserMessage
\* the optimistic append of the user message
sendUserMessageOptimistic(st, text) ==
    setMessages([st EXCEPT !.isLoading = TRUE], Append(st.messages, UserMessage(text)))

\* the captured sessionId is still null after initializeSession returned
sendUserMessageNoSession(st) == setMessages(st, <<UnableMessage>>)

\* mutant: the reply replaces the list (a plain value instead of an updater)
sendUserMessageReplied_Replaces(st, r) ==
    [setMessages(st, <<AssistantMessage(r)>>) EXCEPT !.isLoading = FALSE]

sendUserMessageReplied(st, r) ==
    [setMessages(st, Append(st.messages, AssistantMessage(r))) EXCEPT !.isLoading = FALSE]

\* the 404 branch, up to the await of initializeSession
sendUserMessageExpired(st) ==
    initializeSessionStart(setMessages(st, Append(st.messages, ExpiredMessage)))

\* the 404 branch after initializeSession returned
sendUserMessageRecovered(st) ==
    [setMessages(st, Append(st.messages, NewSessionMessage)) EXCEPT !.isLoading = FALSE]

sendUserMessageFailed(st) ==
    [setMessages(st, Append(st.messages, GenericErrorMessage)) EXCEPT !.isLoading = FALSE]

\* a string as the sequence of its words: String.prototype.includes
Includes(str, sub) ==
    \E i \in 0..(Len(str) - Len(sub)) : SubSeq(str, i + 1, i + Len(sub)) = sub

\* Response.statusText
statusText(status) ==
    IF status = 404 THEN <<"Not", "Found">>
    ELSE IF status = 500 THEN <<"Internal", "Server", "Error">>
    ELSE IF status = 204 THEN <<"No", "Content">>
    ELSE <<"OK">>

\* response bodies that are not JSON (an error page of a proxy or of the host)
Bodies == {<<"<html>", "Bad", "Gateway">>, <<"<html>", "404", "page", "not", "found">>}

\* the ways POST /chat can fail for the code that reads the response itself:
\* fetch rejects, a status that is not ok, a body that is not JSON, JSON
\* without a response field
ChatFailures ==
    {[kind |-> "network", status |-> NULL, body |-> <<>>],
     [kind |-> "status", status |-> 404, body |-> <<>>],
     [kind |-> "status", status |-> 500, body |-> <<>>],
     [kind |-> "format", status |-> 200, body |-> <<>>]}
    \cup {[kind |-> "unparseable", status |-> 200, body |-> b] : b \in Bodies}

\* String(error) of the error sendUserMessage catches
chatError(resp) ==
    IF resp.kind = "network" THEN <<"TypeError:", "Failed", "to", "fetch">>
    ELSE IF resp.kind = "status"
         THEN <<"Error:", "API", "error:", ToString(resp.status)>> \o statusText(resp.status)
    ELSE IF resp.kind = "unparseable"
         THEN <<"Error:", "Failed", "to", "parse", "API", "response:">> \o resp.body
    ELSE <<"Error:", "Invalid", "response", "format", "from", "API">>

is404(errorString) ==
    Includes(errorString, <<"404">>) \/ Includes(errorString, <<"not", "found">>)

\* how a failed POST /chat is logged: status 404, or any other failure
ChatOutcome(resp) ==
    IF resp.kind = "status" /\ resp.status = 404 THEN "404" ELSE "failed"

\* the backend answers 404 only for a session it does not have
CanFail(resp, id) == ChatOutcome(resp) = "404" => id \notin srvSessions

\* sendUserMessage(text), up to its first await
sendUserMessage(text) ==
    /\ CanStart
    /\ IF sessionId = NULL
       THEN /\ Commit(initializeSessionStart(St))
            /\ Start(NewTask("send", "init", NULL, text, currentSettings,
                             <<Req("POST /sessions", NULL, "")>>))
       ELSE /\ Commit(sendUserMessageOptimistic(St, text))
            /\ Start(NewTask("send", "chat", NULL, text, currentSettings,
                             <<Req("POST /chat", sessionId, text)>>))
    /\ UNCHANGED <<uiVars, srvVars, personalityPresets, pageIsLoading>>

\* createSession answered in the no-session branch
sendUserMessage_initializeSession(t) ==
    /\ tasks[t].kind = "send" /\ tasks[t].pc = "init"
    /\ \E ok \in BOOLEAN :
        /\ IF ok THEN SrvCreateSession ELSE UNCHANGED srvVars
        /\ Commit(sendUserMessageNoSession(initializeSessionDone(St, tasks[t].cs, ok, nextId)))
        /\ tasks' = [tasks EXCEPT ![t].pc = "done", ![t].ok = FALSE,
                                  ![t].res = IF ok THEN nextId ELSE NULL,
                                  ![t].resps = Append(@, IF ok THEN "ok" ELSE "failed")]
    /\ UNCHANGED <<uiVars, personalityPresets, pageIsLoading, auxVars>>

\* /chat answered: a reply, or a failure; a failure whose error string holds
\* '404' or 'not found' starts the re-initialization
sendUserMessage_chat(t) ==
    /\ tasks[t].kind = "send" /\ tasks[t].pc = "chat"
    /\ \/ /\ SrvChat(tasks[t].sid, tasks[t].text)
          /\ Commit(sendUserMessageReplied(St, Reply(tasks[t].text)))
          /\ tasks' = [tasks EXCEPT ![t].pc = "done", ![t].ok = TRUE,
                                    ![t].resps = Append(@, "ok"),
                                    ![t].got = <<AssistantMessage(Reply(tasks[t].text))>>]
       \/ \E resp \in ChatFailures :
            /\ CanFail(resp, tasks[t].sid)
            /\ UNCHANGED srvVars
            /\ IF is404(chatError(resp))
               THEN /\ Commit(sendUserMessageExpired(St))
                    /\ tasks' = [tasks EXCEPT ![t].pc = "reinit",
                                              ![t].resps = Append(@, ChatOutcome(resp)),
                                              ![t].reqs = Append(@, Req("POST /sessions", NULL, "")),
                                              ![t].org = Append(@, tasks[t].cs)]
               ELSE /\ Commit(sendUserMessageFailed(St))
                    /\ tasks' = [tasks EXCEPT ![t].pc = "done", ![t].ok = FALSE,
                                              ![t].resps = Append(@, ChatOutcome(resp))]
    /\ UNCHANGED <<uiVars, personalityPresets, pageIsLoading, auxVars>>

\* createSession answered in the 404 branch
sendUserMessage_reinitialize(t) ==
    /\ tasks[t].kind = "send" /\ tasks[t].pc = "reinit"
    /\ \E ok \in BOOLEAN :
        /\ IF ok THEN SrvCreateSession ELSE UNCHANGED srvVars
        /\ Commit(sendUserMessageRecovered(initializeSessionDone(St, tasks[t].cs, ok, nextId)))
        /\ tasks' = [tasks EXCEPT ![t].pc = "done", ![t].ok = FALSE,
                                  ![t].res = IF ok THEN nextId ELSE NULL,
                                  ![t].resps = Append(@, IF ok THEN "ok" ELSE "failed")]
    /\ UNCHANGED <<uiVars, personalityPresets, pageIsLoading, auxVars>>

\* ---------------------------------------------------------------- settings mutators
\* mutant: the previous organization is not spread into the new one
updatePersonality_DropsRest(personality) ==
    /\ nUpdates < MaxUpdates
    /\ currentSettings' = [defaultOrganizationSettings EXCEPT !.personality = personality]
    /\ nUpdates' = nUpdates + 1
    /\ UNCHANGED <<uiVars, sessionId, messages, sessions, isInitialized, isLoading,
                   lastSessionId, srvVars, personalityPresets, pageVars, tasks, pre>>

updatePersonality(personality) ==
    /\ nUpdates < MaxUpdates
    /\ currentSettings' = [currentSettings EXCEPT !.personality = personality]
    /\ nUpdates' = nUpdates + 1
    /\ UNCHANGED <<uiVars, sessionId, messages, sessions, isInitialized, isLoading,
                   lastSessionId, srvVars, personalityPresets, pageVars, tasks, pre>>

updateBackground(background) ==
    /\ nUpdates < MaxUpdates
    /\ currentSettings' = [currentSettings EXCEPT !.background = background]
    /\ nUpdates' = nUpdates + 1
    /\ UNCHANGED <<uiVars, sessionId, messages, sessions, isInitialized, isLoading,
                   lastSessionId, srvVars, personalityPresets, pageVars, tasks, pre>>

updateOrganizationName(name) ==
    /\ nUpdates < MaxUpdates
    /\ currentSettings' = [currentSettings EXCEPT !.name = name]
    /\ nUpdates' = nUpdates + 1
    /\ UNCHANGED <<uiVars, sessionId, messages, sessions, isInitialized, isLoading,
                   lastSessionId, srvVars, personalityPresets, pageVars, tasks, pre>>

\* ---------------------------------------------------------------- loadSession
\* what getAllSessions returns to the provider for a response to GET /sessions
ListOf(resp) == getAllSessions(resp, SeqOfSet(srvSessions)).value

\* whether the response to GET /sessions carried the list
Listed(resp) == Outcome(FetchJson(resp, SeqOfSet(srvSessions)))

loadSessionStart(st) == setMessages([st EXCEPT !.isLoading = TRUE], <<>>)

\* mutant: the fetched messages are appended to the list instead of replacing it
loadSessionFetched_Appends(st, id, msgs) ==
    [setMessages(setSessionId(st, id), st.messages \o msgs) EXCEPT
         !.isInitialized = TRUE, !.lastSessionId = id]

loadSessionFetched(st, id, msgs) ==
    [setMessages(setSessionId(st, id), msgs) EXCEPT !.isInitialized = TRUE,
                                                    !.lastSessionId = id]

\* mutant: the failure path leaves isLoading as it is
loadSessionRejected_KeepsLoading(st) == st

loadSessionRejected(st) == [st EXCEPT !.isLoading = FALSE]

loadSessionListed(st, list) == [st EXCEPT !.sessions = list, !.isLoading = FALSE]

\* loadSession(id), up to the await of getSession
loadSession(id) ==
    /\ CanStart
    /\ Commit(loadSessionStart(St))
    /\ Start(NewTask("load", "get", id, "", currentSettings, <<Req("GET /sessions/id", id, "")>>))
    /\ UNCHANGED <<uiVars, srvVars, personalityPresets, pageIsLoading>>

\* getSession answered
loadSession_getSession(t) ==
    /\ tasks[t].kind = "load" /\ tasks[t].pc = "get"
    /\ \/ /\ tasks[t].arg \in srvSessions
          /\ Commit(loadSessionFetched(St, tasks[t].arg, srvMsgs[tasks[t].arg]))
          /\ tasks' = [tasks EXCEPT ![t].pc = "list", ![t].ok = TRUE,
                                    ![t].got = srvMsgs[tasks[t].arg],
                                    ![t].resps = Append(@, "ok"),
                                    ![t].reqs = Append(@, Req("GET /sessions", NULL, ""))]
       \/ /\ Commit(loadSessionRejected(St))
          /\ tasks' = [tasks EXCEPT ![t].pc = "done", ![t].ok = FALSE,
                                    ![t].resps = Append(@, "failed")]
    /\ UNCHANGED <<uiVars, srvVars, personalityPresets, pageIsLoading, auxVars>>

\* getAllSessions answered
loadSession_getAllSessions(t) ==
    /\ tasks[t].kind = "load" /\ tasks[t].pc = "list"
    /\ \E resp \in Responses :
        /\ Commit(loadSessionListed(St, ListOf(resp)))
        /\ tasks' = [tasks EXCEPT ![t].pc = "done", ![t].resps = Append(@, Listed(resp))]
    /\ UNCHANGED <<uiVars, srvVars, personalityPresets, pageIsLoading, auxVars>>

\* ---------------------------------------------------------------- createNewSession
createNewSessionStart(st) == initializeSessionStart(setMessages(st, <<>>))

createNewSessionListed(st, list) == [st EXCEPT !.sessions = list]

\* createNewSession(), up to the await of createSession inside initializeSession
createNewSession ==
    /\ CanStart
    /\ Commit(createNewSessionStart(St))
    /\ Start(NewTask("createNew", "create", NULL, "", currentSettings,
                     <<Req("POST /sessions", NULL, "")>>))
    /\ UNCHANGED <<uiVars, srvVars, personalityPresets, pageIsLoading>>

\* createSession answered: the rest of initializeSession, then getAllSessions
createNewSession_initializeSession(t) ==
    /\ tasks[t].kind = "createNew" /\ tasks[t].pc = "create"
    /\ \E ok \in BOOLEAN :
        /\ IF ok THEN SrvCreateSession ELSE UNCHANGED srvVars
        /\ Commit(initializeSessionDone(St, tasks[t].cs, ok, nextId))
        /\ tasks' = [tasks EXCEPT ![t].pc = "list", ![t].ok = ok,
                                  ![t].res = IF ok THEN nextId ELSE NULL,
                                  ![t].resps = Append(@, IF ok THEN "ok" ELSE "failed"),
                                  ![t].reqs = Append(@, Req("GET /sessions", NULL, ""))]
    /\ UNCHANGED <<uiVars, personalityPresets, pageIsLoading, auxVars>>

createNewSession_getAllSessions(t) ==
    /\ tasks[t].kind = "createNew" /\ tasks[t].pc = "list"
    /\ \E resp \in Responses :
        /\ Commit(createNewSessionListed(St, ListOf(resp)))
        /\ tasks' = [tasks EXCEPT ![t].pc = "done", ![t].resps = Append(@, Listed(resp))]
    /\ UNCHANGED <<uiVars, srvVars, personalityPresets, pageIsLoading, auxVars>>

\* ---------------------------------------------------------------- deleteSessionById
Filter(list, id) == SelectSeq(list, LAMBDA s : s # id)

\* mutant: the active session is cleared but lastSessionId stays in local storage
deleteSessionByIdDone_KeepsStored(st, idToDelete, active) ==
    LET s1 == [st EXCEPT !.sessions = Filter(st.sessions, idToDelete)]
    IN IF idToDelete = active
       THEN [setMessages(setSessionId(s1, NULL), <<>>) EXCEPT !.isInitialized = FALSE]
       ELSE s1

\* mutant: the current session is cleared whichever session was deleted
deleteSessionByIdDone_AlwaysClears(st, idToDelete, active) ==
    LET s1 == [st EXCEPT !.sessions = Filter(st.sessions, idToDelete)]
    IN [setMessages(setSessionId(s1, NULL), <<>>) EXCEPT
            !.isInitialized = FALSE, !.lastSessionId = NULL]

\* the continuation of deleteSessionById; active is the captured sessionId
deleteSessionByIdDone(st, idToDelete, active) ==
    LET s1 == [st EXCEPT !.sessions = Filter(st.sessions, idToDelete)]
    IN IF idToDelete = active
       THEN [setMessages(setSessionId(s1, NULL), <<>>) EXCEPT
                       !.isInitialized = FALSE, !.lastSessionId = NULL]
       ELSE s1

\* deleteSessionById(id), up to the await of deleteSession
deleteSessionById(id) ==
    /\ CanStart
    /\ Start(NewTask("delete", "del", id, "", currentSettings, <<Req("DELETE /sessions/id", id, "")>>))
    /\ UNCHANGED <<uiVars, ctxVars, lastSessionId, srvVars, personalityPresets, pageVars>>

\* deleteSession answered; the API client returns {success} and never throws
deleteSessionById_deleteSession(t) ==
    /\ tasks[t].kind = "delete" /\ tasks[t].pc = "del"
    /\ \E ok \in BOOLEAN :
        /\ IF ok THEN SrvDelete(tasks[t].arg) ELSE UNCHANGED srvVars
        /\ tasks' = [tasks EXCEPT ![t].pc = "done", ![t].ok = ok,
                                  ![t].resps = Append(@, IF ok THEN "ok" ELSE "failed")]
    /\ Commit(deleteSessionByIdDone(St, tasks[t].arg, tasks[t].sid))
    /\ isDeleting' = IF tasks[t].caller = "Sidebar" THEN NULL ELSE isDeleting
    /\ UNCHANGED <<panelVars, apiCall, personalityPresets, pageIsLoading, auxVars>>

\* ---------------------------------------------------------------- provider mount
\* loadInitialData(): the provider's mount effect, awaiting getPersonalityPresets
loadInitialDataTask ==
    [NoTask EXCEPT !.kind = "loadInitial", !.pc = "presets",
                   !.reqs = <<Req("GET /personalities", NULL, "")>>]

\* getPersonalityPresets answered; a failure ends loadInitialData
loadInitialData_getPersonalityPresets(t) ==
    /\ tasks[t].kind = "loadInitial" /\ tasks[t].pc = "presets"
    /\ \/ /\ personalityPresets' = TRUE
          /\ tasks' = [tasks EXCEPT ![t].pc = "list", ![t].resps = Append(@, "ok"),
                                    ![t].reqs = Append(@, Req("GET /sessions", NULL, ""))]
       \/ /\ personalityPresets' = personalityPresets
          /\ tasks' = [tasks EXCEPT ![t].pc = "done", ![t].ok = FALSE,
                                    ![t].resps = Append(@, "failed")]
    /\ UNCHANGED <<uiVars, ctxVars, lastSessionId, srvVars, pageVars, auxVars>>

\* getAllSessions answered; then loadSession(lastSessionId) when one is stored
loadInitialData_getAllSessions(t) ==
    /\ tasks[t].kind = "loadInitial" /\ tasks[t].pc = "list"
    /\ \E resp \in Responses :
        LET s1 == [St EXCEPT !.sessions = ListOf(resp)]
        IN IF lastSessionId # NULL
           THEN /\ Commit(loadSessionStart(s1))
                /\ tasks' = [tasks EXCEPT ![t].pc = "get", ![t].arg = lastSessionId,
                                          ![t].sid = sessionId,
                                          ![t].resps = Append(@, Listed(resp)),
                                          ![t].reqs = Append(@, Req("GET /sessions/id", lastSessionId, ""))]
           ELSE /\ Commit(s1)
                /\ tasks' = [tasks EXCEPT ![t].pc = "done", ![t].ok = TRUE,
                                          ![t].resps = Append(@, Listed(resp))]
    /\ UNCHANGED <<uiVars, srvVars, personalityPresets, pageIsLoading, auxVars>>

\* getSession answered inside the restore; a failure removes lastSessionId
loadInitialData_getSession(t) ==
    /\ tasks[t].kind = "loadInitial" /\ tasks[t].pc = "get"
    /\ \/ /\ tasks[t].arg \in srvSessions
          /\ Commit(loadSessionFetched(St, tasks[t].arg, srvMsgs[tasks[t].arg]))
          /\ tasks' = [tasks EXCEPT ![t].pc = "relist", ![t].ok = TRUE,
                                    ![t].got = srvMsgs[tasks[t].arg],
                                    ![t].resps = Append(@, "ok"),
                                    ![t].reqs = Append(@, Req("GET /sessions", NULL, ""))]
       \/ /\ Commit([loadSessionRejected(St) EXCEPT !.lastSessionId = NULL])
          /\ tasks' = [tasks EXCEPT ![t].pc = "done", ![t].ok = FALSE,
                                    ![t].resps = Append(@, "failed")]
    /\ UNCHANGED <<uiVars, srvVars, personalityPresets, pageIsLoading, auxVars>>

\* getAllSessions answered inside the restore
loadInitialData_loadSession(t) ==
    /\ tasks[t].kind = "loadInitial" /\ tasks[t].pc = "relist"
    /\ \E resp \in Responses :
        /\ Commit(loadSessionListed(St, ListOf(resp)))
        /\ tasks' = [tasks EXCEPT ![t].pc = "done", ![t].resps = Append(@, Listed(resp))]
    /\ UNCHANGED <<uiVars, srvVars, personalityPresets, pageIsLoading, auxVars>>

\* ---------------------------------------------------------------- chat page
getPersonality(store) ==
    IF hasItem(store, "aiPersonality") THEN store["aiPersonality"] ELSE "Balanced"

getBackgroundTexts(store) ==
    IF hasItem(store, "backgroundTexts") THEN store["backgroundTexts"] ELSE <<>>

\* the saved tool toggles under the names the backend uses
getEnabledTools(store) ==
    IF hasItem(store, "enabledTools")
    THEN [background_search |-> store["enabledTools"].backgroundSearch,
          memory_storage |-> store["enabledTools"].memoryStorage,
          memory_retrieval |-> store["enabledTools"].memoryRetrieval,
          web_search |-> store["enabledTools"].webSearch]
    ELSE [background_search |-> TRUE, memory_storage |-> TRUE,
          memory_retrieval |-> TRUE, web_search |-> FALSE]

\* the settings the page builds from local storage
orgSettings(store) ==
    [name |-> "Agentica AI", personality |-> getPersonality(store),
     background |-> getBackgroundTexts(store), tools |-> getEnabledTools(store)]

PageErrorMessage == Msg("assistant", "Error")

\* initializeAgent(): the page's mount effect, awaiting the API test request
initializeAgentTask ==
    [NoTask EXCEPT !.kind = "initAgent", !.pc = "test",
                   !.reqs = <<Req("GET /", NULL, "")>>]

\* the API test answered (an answer removes lastSessionId); then
\* initializeSession(orgSettings) up to the await of createSession
initializeAgent_test(t) ==
    /\ tasks[t].kind = "initAgent" /\ tasks[t].pc = "test"
    /\ \E ok \in BOOLEAN :
        /\ Commit(initializeSessionStart(
                    [St EXCEPT !.lastSessionId = IF ok THEN NULL ELSE @]))
        /\ tasks' = [tasks EXCEPT ![t].pc = "create", ![t].sid = sessionId,
                                  ![t].cs = orgSettings(storage),
                                  ![t].org = <<orgSettings(storage)>>,
                                  ![t].resps = Append(@, IF ok THEN "ok" ELSE "failed"),
                                  ![t].reqs = Append(@, Req("POST /sessions", NULL, ""))]
    /\ UNCHANGED <<uiVars, srvVars, personalityPresets, pageIsLoading, auxVars>>

\* createSession answered: the rest of initializeSession
initializeAgent_initializeSession(t) ==
    /\ tasks[t].kind = "initAgent" /\ tasks[t].pc = "create"
    /\ \E ok \in BOOLEAN :
        /\ IF ok THEN SrvCreateSession ELSE UNCHANGED srvVars
        /\ Commit(initializeSessionDone(St, tasks[t].cs, ok, nextId))
        /\ tasks' = [tasks EXCEPT ![t].pc = "done", ![t].ok = ok,
                                  ![t].res = IF ok THEN nextId ELSE NULL,
                                  ![t].resps = Append(@, IF ok THEN "ok" ELSE "failed")]
    /\ UNCHANGED <<uiVars, personalityPresets, pageIsLoading, auxVars>>

\* handleSubmit with a non-blank input, up to its first await; arg is the
\* handler's local sessionId
handleSubmit(text) ==
    /\ NextTask <= MaxTasks
    /\ ~pageIsLoading /\ ~isLoading
    /\ pageMessages' = Append(pageMessages, UserMessage(text))
    /\ pageIsLoading' = TRUE
    /\ IF lastSessionId = NULL
       THEN Start([NoTask EXCEPT !.kind = "submit", !.pc = "create", !.text = text,
                                 !.sid = sessionId,
                                 !.org = <<orgSettings(storage)>>,
                                 !.reqs = <<Req("POST /sessions", NULL, "")>>])
       ELSE Start([NoTask EXCEPT !.kind = "submit", !.pc = "chat", !.text = text,
                                 !.sid = sessionId, !.arg = lastSessionId,
                                 !.reqs = <<Req("POST /chat", lastSessionId, text)>>])
    /\ UNCHANGED <<uiVars, ctxVars, lastSessionId, srvVars, personalityPresets>>

\* POST /sessions answered
handleSubmit_sessions(t) ==
    /\ tasks[t].kind = "submit" /\ tasks[t].pc = "create"
    /\ \/ /\ SrvCreateSession
          /\ lastSessionId' = nextId
          /\ tasks' = [tasks EXCEPT ![t].pc = "chat", ![t].arg = nextId, ![t].res = nextId,
                                    ![t].resps = Append(@, "ok"),
                                    ![t].reqs = Append(@, Req("POST /chat", nextId, tasks[t].text))]
          /\ UNCHANGED pageVars
       \/ /\ UNCHANGED <<srvVars, lastSessionId>>
          /\ pageMessages' = Append(pageMessages, PageErrorMessage)
          /\ pageIsLoading' = FALSE
          /\ tasks' = [tasks EXCEPT ![t].pc = "done", ![t].ok = FALSE,
                                    ![t].resps = Append(@, "failed")]
    /\ UNCHANGED <<uiVars, ctxVars, personalityPresets, auxVars>>

\* POST /chat answered
handleSubmit_chat(t) ==
    /\ tasks[t].kind = "submit" /\ tasks[t].pc = "chat"
    /\ \/ /\ SrvChat(tasks[t].arg, tasks[t].text)
          /\ pageMessages' = Append(pageMessages, AssistantMessage(Reply(tasks[t].text)))
          /\ tasks' = [tasks EXCEPT ![t].pc = "done", ![t].ok = TRUE,
                                    ![t].resps = Append(@, "ok")]
       \/ \E resp \in ChatFailures :
            /\ CanFail(resp, tasks[t].arg)
            /\ UNCHANGED srvVars
            /\ pageMessages' = Append(pageMessages, PageErrorMessage)
            /\ tasks' = [tasks EXCEPT ![t].pc = "done", ![t].ok = FALSE,
                                      ![t].resps = Append(@, ChatOutcome(resp))]
    /\ pageIsLoading' = FALSE
    /\ UNCHANGED <<uiVars, ctxVars, lastSessionId, personalityPresets, auxVars>>

\* ---------------------------------------------------------------- settings panel
PersonalityOptions == {"Balanced", "Custom"}

CustomPrompts == {"", "be brief"}

Urls == {"https://a.example"}

\* what the user types as a background item
BackgroundInfos == {"bg"}

\* the tools whose toggle is enabled in the panel
Toggles == {"memoryStorage"}

\* bodies POST /scrape-website answers with
ScrapeBodies ==
    {[status |-> "success", message |-> "done", background_items |-> <<"A", "B">>],
     [status |-> "success", message |-> "", background_items |-> <<>>],
     [status |-> "error", message |-> "blocked", background_items |-> <<"A">>],
     [status |-> "error", message |-> "", background_items |-> <<>>]}

\* the panel's state when it is not mounted
SettingsUnmounted ==
    /\ selectedPersonality' = "Balanced"
    /\ customInstructions' = ""
    /\ websiteUrl' = ""
    /\ backgroundItems' = <<>>
    /\ isScraping' = FALSE
    /\ scrapeError' = ""
    /\ enabledTools' = defaultToolSettings

\* the page shows the panel: it mounts with its defaults and then loads what
\* was saved in local storage
openSettings ==
    /\ ~showSettings
    /\ settingsMount < MaxMounts
    /\ showSettings' = TRUE
    /\ settingsMount' = settingsMount + 1
    /\ selectedPersonality' =
           IF hasItem(storage, "aiPersonality") THEN storage["aiPersonality"] ELSE "Balanced"
    /\ customInstructions' =
           IF hasItem(storage, "customPrompt") THEN storage["customPrompt"] ELSE ""
    /\ backgroundItems' =
           IF hasItem(storage, "backgroundTexts") THEN storage["backgroundTexts"] ELSE <<>>
    /\ enabledTools' =
           IF hasItem(storage, "enabledTools") THEN storage["enabledTools"]
           ELSE defaultToolSettings
    /\ websiteUrl' = ""
    /\ isScraping' = FALSE
    /\ scrapeError' = ""
    /\ UNCHANGED <<ctxVars, lastSessionId, srvVars, personalityPresets, pageVars, tasks,
                   storage, isDeleting, apiCall, auxVars>>

\* Cancel or the close button: the page unmounts the panel
handleClose ==
    /\ showSettings
    /\ showSettings' = FALSE
    /\ SettingsUnmounted
    /\ UNCHANGED <<ctxVars, lastSessionId, srvVars, personalityPresets, pageVars, tasks,
                   settingsMount, storage, isDeleting, apiCall, auxVars>>

setSelectedPersonality(title) ==
    /\ showSettings
    /\ selectedPersonality' = title
    /\ UNCHANGED <<ctxVars, lastSessionId, srvVars, personalityPresets, pageVars, tasks,
                   showSettings, settingsMount, customInstructions, websiteUrl,
                   backgroundItems, isScraping, scrapeError, enabledTools, storage,
                   isDeleting, apiCall, auxVars>>

\* the custom prompt can be typed while Custom is selected
setCustomInstructions(prompt) ==
    /\ showSettings
    /\ selectedPersonality = "Custom"
    /\ customInstructions' = prompt
    /\ UNCHANGED <<ctxVars, lastSessionId, srvVars, personalityPresets, pageVars, tasks,
                   showSettings, settingsMount, selectedPersonality, websiteUrl,
                   backgroundItems, isScraping, scrapeError, enabledTools, storage,
                   isDeleting, apiCall, auxVars>>

setWebsiteUrl(url) ==
    /\ showSettings
    /\ websiteUrl' = url
    /\ UNCHANGED <<ctxVars, lastSessionId, srvVars, personalityPresets, pageVars, tasks,
                   showSettings, settingsMount, selectedPersonality, customInstructions,
                   backgroundItems, isScraping, scrapeError, enabledTools, storage,
                   isDeleting, apiCall, auxVars>>

addBackgroundItem(backgroundInfo) ==
    /\ showSettings
    /\ Len(backgroundItems) < MaxItems
    /\ backgroundItems' = Append(backgroundItems, backgroundInfo)
    /\ UNCHANGED <<ctxVars, lastSessionId, srvVars, personalityPresets, pageVars, tasks,
                   showSettings, settingsMount, selectedPersonality, customInstructions,
                   websiteUrl, isScraping, scrapeError, enabledTools, storage,
                   isDeleting, apiCall, auxVars>>

removeBackgroundItem(index) ==
    /\ showSettings
    /\ index \in DOMAIN backgroundItems
    /\ backgroundItems' = [i \in 1..(Len(backgroundItems) - 1) |->
                              IF i < index THEN backgroundItems[i] ELSE backgroundItems[i + 1]]
    /\ UNCHANGED <<ctxVars, lastSessionId, srvVars, personalityPresets, pageVars, tasks,
                   showSettings, settingsMount, selectedPersonality, customInstructions,
                   websiteUrl, isScraping, scrapeError, enabledTools, storage,
                   isDeleting, apiCall, auxVars>>

\* a tool's checkbox is clicked
setEnabledTools(tool) ==
    /\ showSettings
    /\ enabledTools' = [enabledTools EXCEPT ![tool] = ~@]
    /\ UNCHANGED <<ctxVars, lastSessionId, srvVars, personalityPresets, pageVars, tasks,
                   showSettings, settingsMount, selectedPersonality, customInstructions,
                   websiteUrl, backgroundItems, isScraping, scrapeError, storage,
                   isDeleting, apiCall, auxVars>>

\* Save: the four keys are written to local storage and the panel is closed
handleSaveSettings ==
    /\ showSettings
    /\ LET s1 == setItem(storage, "aiPersonality", selectedPersonality)
           s2 == IF selectedPersonality = "Custom"
                 THEN setItem(s1, "customPrompt", customInstructions)
                 ELSE removeItem(s1, "customPrompt")
           s3 == setItem(s2, "backgroundTexts", backgroundItems)
       IN storage' = setItem(s3, "enabledTools", enabledTools)
    /\ showSettings' = FALSE
    /\ SettingsUnmounted
    /\ UNCHANGED <<ctxVars, lastSessionId, srvVars, personalityPresets, pageVars, tasks,
                   settingsMount, isDeleting, apiCall, auxVars>>

\* scrapeWebsite returned a success with items
scrapeSucceeded(result) ==
    /\ ~result.threw
    /\ result.value.status = "success"
    /\ Len(result.value.background_items) > 0

\* mutant: the scraped items are put before the existing ones
scrapedItems_Prepends(prev, result) ==
    IF scrapeSucceeded(result) THEN result.value.background_items \o prev ELSE prev

\* the background items after scrapeWebsite returned or threw
scrapedItems(prev, result) ==
    IF scrapeSucceeded(result) THEN prev \o result.value.background_items ELSE prev

\* the scrape error after scrapeWebsite returned or threw
scrapedError(prevError, result) ==
    IF result.threw THEN "Failed to scrape website. Please check the URL and try again."
    ELSE IF scrapeSucceeded(result) THEN prevError
    ELSE IF result.value.message # "" THEN result.value.message
    ELSE "Failed to extract content from the website."

\* the Scrape button, enabled while a URL is typed and no scrape is in
\* progress; up to the await of scrapeWebsite
handleScrapeWebsite ==
    /\ showSettings
    /\ websiteUrl # "" /\ ~isScraping
    /\ NextTask <= MaxScrapes
    /\ isScraping' = TRUE
    /\ scrapeError' = ""
    /\ Start([NoTask EXCEPT !.kind = "scrape", !.pc = "scrape", !.text = websiteUrl,
                            !.arg = settingsMount,
                            !.reqs = <<Req("POST /scrape-website", NULL, websiteUrl)>>])
    /\ UNCHANGED <<ctxVars, lastSessionId, srvVars, personalityPresets, pageVars,
                   showSettings, settingsMount, selectedPersonality, customInstructions,
                   websiteUrl, backgroundItems, enabledTools, storage, isDeleting, apiCall>>

\* scrapeWebsite returned or threw; state updates of a panel that was
\* unmounted in the meantime are dropped
handleScrapeWebsite_scrapeWebsite(t) ==
    /\ tasks[t].kind = "scrape" /\ tasks[t].pc = "scrape"
    /\ \E resp \in Responses, body \in ScrapeBodies :
        LET result == scrapeWebsite(resp, body)
        IN /\ tasks' = [tasks EXCEPT ![t].pc = "done", ![t].ok = ~result.threw,
                                     ![t].resps = Append(@, IF result.threw THEN "failed"
                                                            ELSE result.value.status),
                                     ![t].got = IF result.threw THEN <<>>
                                                ELSE result.value.background_items]
           /\ IF showSettings /\ tasks[t].arg = settingsMount
              THEN /\ backgroundItems' = scrapedItems(backgroundItems, result)
                   /\ websiteUrl' = IF scrapeSucceeded(result) THEN "" ELSE websiteUrl
                   /\ scrapeError' = scrapedError(scrapeError, result)
                   /\ isScraping' = FALSE
              ELSE UNCHANGED <<backgroundItems, websiteUrl, scrapeError, isScraping>>
    /\ UNCHANGED <<ctxVars, lastSessionId, srvVars, personalityPresets, pageVars,
                   showSettings, settingsMount, selectedPersonality, customInstructions,
                   enabledTools, storage, isDeleting, apiCall, auxVars>>

\* ---------------------------------------------------------------- sidebar
\* a session of the list is clicked
handleSelectChat(id) ==
    /\ ~isLoading /\ isDeleting = NULL
    /\ id # sessionId
    /\ loadSession(id)

\* the New chat button
handleNewChat ==
    /\ ~isLoading
    /\ createNewSession

\* the delete button of a session of the list; up to the await of deleteSession
handleDeleteChat(id) ==
    /\ ~isLoading /\ isDeleting = NULL
    /\ CanStart
    /\ isDeleting' = id
    /\ Start([NewTask("delete", "del", id, "", currentSettings,
                      <<Req("DELETE /sessions/id", id, "")>>) EXCEPT !.caller = "Sidebar"])
    /\ UNCHANGED <<panelVars, apiCall, ctxVars, lastSessionId, srvVars, personalityPresets,
                   pageVars>>

\* ---------------------------------------------------------------- API client calls
\* an operation of the API client is called and fetch answers with resp
Called(op, resp, result) ==
    /\ apiCall' = [op |-> op, resp |-> resp, result |-> result]
    /\ UNCHANGED <<ctxVars, lastSessionId, srvVars, personalityPresets, pageVars, tasks,
                   panelVars, isDeleting, auxVars>>

call_createSession(resp) ==
    Called("createSession", resp, createSession(resp, [session_id |-> nextId]))

call_sendMessage(resp) ==
    Called("sendMessage", resp, sendMessage(resp, [response |-> Reply("t1")]))

call_getSession(resp) ==
    Called("getSession", resp, getSession(resp, [messages |-> History(1)]))

call_getPersonalityPresets(resp) ==
    Called("getPersonalityPresets", resp, getPersonalityPresets(resp, Personalities))

call_getAllSessions(resp) ==
    Called("getAllSessions", resp, getAllSessions(resp, SeqOfSet(srvSessions)))

call_deleteSession(resp) ==
    Called("deleteSession", resp, deleteSession(resp))

call_scrapeWebsite(resp) ==
    \E body \in ScrapeBodies : Called("scrapeWebsite", resp, scrapeWebsite(resp, body))

\* ---------------------------------------------------------------- environment
\* the backend drops the session the user is in (it expired, or the server
\* restarted)
BackendExpire(id) ==
    /\ id \in srvSessions
    /\ id = sessionId
    /\ srvSessions' = srvSessions \ {id}
    /\ UNCHANGED <<uiVars, ctxVars, lastSessionId, srvMsgs, nextId, personalityPresets,
                   pageVars, tasks, auxVars>>

\* ids a caller can name: every id the backend ever handed out
KnownIds == 1..(nextId - 1)

Call ==
    \/ \E s \in {currentSettings} : initializeSession(s)
    \/ \E text \in Texts : sendUserMessage(text)
    \/ \E id \in KnownIds : loadSession(id)
    \/ createNewSession
    \/ \E id \in KnownIds : deleteSessionById(id)

Update ==
    \/ \E p \in Personalities : updatePersonality(p)
    \/ \E b \in Backgrounds : updateBackground(b)
    \/ \E n \in Names : updateOrganizationName(n)

Resume ==
    \/ \E t \in TaskIds : initializeSession_createSession(t)
    \/ \E t \in TaskIds : sendUserMessage_initializeSession(t)
    \/ \E t \in TaskIds : sendUserMessage_chat(t)
    \/ \E t \in TaskIds : sendUserMessage_reinitialize(t)
    \/ \E t \in TaskIds : loadSession_getSession(t)
    \/ \E t \in TaskIds : loadSession_getAllSessions(t)
    \/ \E t \in TaskIds : createNewSession_initializeSession(t)
    \/ \E t \in TaskIds : createNewSession_getAllSessions(t)
    \/ \E t \in TaskIds : deleteSessionById_deleteSession(t)

Environment == \E id \in Ids : BackendExpire(id)

\* context operations called in any interleaving
Next == Call \/ Resume \/ Environment

Spec == Init /\ [][Next]_vars

\* the context operations, each with one input
LiveCall ==
    \/ initializeSession(currentSettings)
    \/ sendUserMessage("t1")
    \/ loadSession(1)
    \/ createNewSession
    \/ deleteSessionById(1)

\* context operations called in any interleaving
NextLive == LiveCall \/ Resume

\* every backend request is eventually answered, with a response or an error
SpecLive == Init /\ [][NextLive]_vars /\ WF_vars(Resume)

\* context operations called one at a time
NextSeq == (Running = {} /\ Call) \/ Resume \/ Environment

SpecSeq == Init /\ [][NextSeq]_vars

\* the settings mutators, between sessions created from the current settings
NextSettings ==
    \/ Update
    \/ Running = {} /\ createNewSession
    \/ \E text \in Texts : Running = {} /\ sendUserMessage(text)
    \/ \E t \in TaskIds : createNewSession_initializeSession(t)
    \/ \E t \in TaskIds : createNewSession_getAllSessions(t)
    \/ \E t \in TaskIds : sendUserMessage_initializeSession(t)
    \/ \E t \in TaskIds : sendUserMessage_chat(t)
    \/ \E t \in TaskIds : sendUserMessage_reinitialize(t)
    \/ Environment

SpecSettings == Init /\ [][NextSettings]_vars

\* the page after mount: both mount effects have started
InitPage ==
    /\ sessionId = NULL
    /\ messages = <<>>
    /\ sessions = <<>>
    /\ isInitialized = FALSE
    /\ isLoading = FALSE
    /\ currentSettings = defaultOrganizationSettings
    /\ lastSessionId \in {NULL, 1}
    /\ srvSessions = 1..InitialSessions
    /\ srvMsgs = [i \in Ids |-> IF i <= InitialSessions THEN History(i) ELSE <<>>]
    /\ nextId = InitialSessions + 1
    /\ personalityPresets = FALSE
    /\ pageMessages = <<>>
    /\ pageIsLoading = FALSE
    /\ tasks = [t \in TaskIds |-> IF t = 1 THEN initializeAgentTask
                                   ELSE IF t = 2 THEN loadInitialDataTask ELSE NoTask]
    /\ InitUI
    /\ nUpdates = 0
    /\ pre = [St EXCEPT !.sessionId = NULL]

Mount ==
    \/ \E t \in TaskIds : initializeAgent_test(t)
    \/ \E t \in TaskIds : initializeAgent_initializeSession(t)
    \/ \E t \in TaskIds : loadInitialData_getPersonalityPresets(t)
    \/ \E t \in TaskIds : loadInitialData_getAllSessions(t)
    \/ \E t \in TaskIds : loadInitialData_getSession(t)
    \/ \E t \in TaskIds : loadInitialData_loadSession(t)

Submit ==
    \/ \E text \in Texts : handleSubmit(text)
    \/ \E t \in TaskIds : handleSubmit_sessions(t)
    \/ \E t \in TaskIds : handleSubmit_chat(t)

\* the mount effects and the user submitting messages on the chat page
NextPage == Mount \/ Submit

SpecPage == InitPage /\ [][NextPage]_vars

\* the settings panel: opened, edited, scraped into, saved or cancelled
Panel ==
    \/ openSettings
    \/ handleClose
    \/ \E title \in PersonalityOptions : setSelectedPersonality(title)
    \/ \E prompt \in CustomPrompts : setCustomInstructions(prompt)
    \/ \E url \in Urls : setWebsiteUrl(url)
    \/ \E backgroundInfo \in BackgroundInfos : addBackgroundItem(backgroundInfo)
    \/ \E index \in DOMAIN backgroundItems : removeBackgroundItem(index)
    \/ \E tool \in Toggles : setEnabledTools(tool)
    \/ handleScrapeWebsite
    \/ \E t \in TaskIds : handleScrapeWebsite_scrapeWebsite(t)
    \/ handleSaveSettings

NextPanel == Panel

SpecPanel == Init /\ [][NextPanel]_vars

Sidebar ==
    \/ \E i \in DOMAIN sessions : handleSelectChat(sessions[i])
    \/ handleNewChat
    \/ \E i \in DOMAIN sessions : handleDeleteChat(sessions[i])
    \/ \E t \in TaskIds : loadSession_getSession(t)
    \/ \E t \in TaskIds : loadSession_getAllSessions(t)
    \/ \E t \in TaskIds : createNewSession_initializeSession(t)
    \/ \E t \in TaskIds : createNewSession_getAllSessions(t)
    \/ \E t \in TaskIds : deleteSessionById_deleteSession(t)

\* the application: the mount effects, the chat page's form and the sidebar
NextApp == Mount \/ Submit \/ Sidebar \/ Environment

SpecApp == InitPage /\ [][NextApp]_vars

\* the user changes the personality in the settings panel and saves, while
\* no request is outstanding
Saved ==
    \/ Running = {} /\ openSettings
    \/ \E title \in PersonalityOptions : Running = {} /\ setSelectedPersonality(title)
    \/ Running = {} /\ handleSaveSettings

NewChat ==
    \/ handleNewChat
    \/ \E t \in TaskIds : createNewSession_initializeSession(t)
    \/ \E t \in TaskIds : createNewSession_getAllSessions(t)

\* the chat page with its settings panel and the New chat button
NextSaved == Mount \/ Submit \/ NewChat \/ Saved

SpecSaved == InitPage /\ [][NextSaved]_vars

\* the operations of the API client, called with every response
NextApi ==
    \/ \E resp \in Responses : call_createSession(resp)
    \/ \E resp \in Responses : call_sendMessage(resp)
    \/ \E resp \in Responses : call_getSession(resp)
    \/ \E resp \in Responses : call_getPersonalityPresets(resp)
    \/ \E resp \in Responses : call_getAllSessions(resp)
    \/ \E resp \in Responses : call_deleteSession(resp)
    \/ \E resp \in Responses : call_scrapeWebsite(resp)

SpecApi == Init /\ [][NextApi]_vars

\* ================================================================ claims
\* the task started last
LastTask == Cardinality(Started)

\* task t is the only call since the provider was last idle, and it has finished
FinishedAlone(t) == Running = {} /\ t = LastTask /\ tasks[t].pc = "done"

Count(list, m) == Cardinality({i \in DOMAIN list : list[i] = m})

\* C1: whenever no context operation is in progress after a loadSession,
\* createNewSession or initializeSession that ran alone, the active id and the
\* message list were replaced together: on success they are the id and the
\* messages of the session loaded or created, on failure the active id and,
\* when there is one, its message list are what they were before the call.
C1_IdAndMessagesReplacedTogether ==
    \A t \in TaskIds :
        (FinishedAlone(t) /\ tasks[t].kind \in {"load", "createNew", "init"}) =>
            IF tasks[t].ok
            THEN /\ sessionId = (IF tasks[t].kind = "load" THEN tasks[t].arg ELSE tasks[t].res)
                 /\ messages = (IF tasks[t].kind = "load" THEN tasks[t].got ELSE <<>>)
            ELSE /\ sessionId = pre.sessionId
                 /\ pre.sessionId # NULL => messages = pre.messages

C3_SendWithoutSessionCreatesThenPosts ==
    \A t \in TaskIds :
        (tasks[t].kind = "send" /\ tasks[t].pc = "done" /\ tasks[t].sid = NULL
            /\ tasks[t].res # NULL) =>
            \E i \in DOMAIN tasks[t].reqs, j \in DOMAIN tasks[t].reqs :
                /\ i < j
                /\ tasks[t].reqs[i].op = "POST /sessions"
                /\ tasks[t].reqs[j] = Req("POST /chat", tasks[t].res, tasks[t].text)

\* C4: on the chat page, a handleSubmit that finds no cached session id
\* creates a session before it posts /chat, and every later handleSubmit
\* posts /chat with the id that handleSubmit created, without creating
\* another session, for every interleaving with the mount effects.
C4_SubmitReusesCreatedSession ==
    \A t1 \in TaskIds, t2 \in TaskIds :
        (/\ t1 < t2
         /\ tasks[t1].kind = "submit" /\ tasks[t2].kind = "submit"
         /\ tasks[t1].res # NULL) =>
            /\ \A i \in DOMAIN tasks[t1].reqs :
                   tasks[t1].reqs[i].op = "POST /chat" =>
                       i > 1 /\ tasks[t1].reqs[i].sid = tasks[t1].res
            /\ \A i \in DOMAIN tasks[t2].reqs :
                   /\ tasks[t2].reqs[i].op # "POST /sessions"
                   /\ tasks[t2].reqs[i].op = "POST /chat" =>
                          tasks[t2].reqs[i].sid = tasks[t1].res

\* C5: a sendUserMessage in an active session that got 404 from /chat ends
\* with the message list holding one more 'session expired' notice followed
\* by one more 'new session created' notice as its last two entries, and the
\* user message at most once more than before.
C5_ExpiredThenNewSessionNotice ==
    \A t \in TaskIds :
        (/\ FinishedAlone(t) /\ tasks[t].kind = "send" /\ tasks[t].sid # NULL
         /\ Len(tasks[t].reqs) = 2 /\ tasks[t].reqs[2].op = "POST /sessions") =>
            LET n == Len(messages)
            IN /\ n >= 2
               /\ messages[n - 1] = ExpiredMessage
               /\ messages[n] = NewSessionMessage
               /\ Count(messages, ExpiredMessage) = Count(pre.messages, ExpiredMessage) + 1
               /\ Count(messages, NewSessionMessage) = Count(pre.messages, NewSessionMessage) + 1
               /\ Count(messages, UserMessage(tasks[t].text))
                      <= Count(pre.messages, UserMessage(tasks[t].text)) + 1

\* list without its entries for id, the other entries in their order
RECURSIVE Without(_, _)
Without(list, id) ==
    IF list = <<>> THEN <<>>
    ELSE IF Head(list) = id THEN Without(Tail(list), id)
    ELSE <<Head(list)>> \o Without(Tail(list), id)

InList(list, id) == \E i \in DOMAIN list : list[i] = id

\* C6: deleteSession(id) of the active session, run alone, ends with no
\* active id, an empty message list, isInitialized false, no lastSessionId in
\* local storage and no entry for id in the summary list.
C6_DeleteActiveClearsSession ==
    \A t \in TaskIds :
        (FinishedAlone(t) /\ tasks[t].kind = "delete" /\ tasks[t].arg = pre.sessionId) =>
            /\ sessionId = NULL
            /\ messages = <<>>
            /\ ~isInitialized
            /\ lastSessionId = NULL
            /\ ~InList(sessions, tasks[t].arg)

\* the active session, listed and stored, with messages on screen, was deleted
C6_Witness ==
    \E t \in TaskIds :
        /\ FinishedAlone(t) /\ tasks[t].kind = "delete" /\ tasks[t].arg = pre.sessionId
        /\ pre.messages # <<>>
        /\ pre.lastSessionId = tasks[t].arg
        /\ InList(pre.sessions, tasks[t].arg)
        /\ pre.isInitialized

\* C7: deleteSession(id) of a session that is not the active one, run alone,
\* leaves the active id, the message list, isInitialized and lastSessionId as
\* they were and removes exactly the entries for id from the summary list.
C7_DeleteOtherKeepsSession ==
    \A t \in TaskIds :
        (FinishedAlone(t) /\ tasks[t].kind = "delete" /\ tasks[t].arg # pre.sessionId) =>
            /\ sessionId = pre.sessionId
            /\ messages = pre.messages
            /\ isInitialized = pre.isInitialized
            /\ lastSessionId = pre.lastSessionId
            /\ sessions = Without(pre.sessions, tasks[t].arg)

\* a listed session other than the active one was deleted while a session
\* with messages was active
C7_Witness ==
    \E t \in TaskIds :
        /\ FinishedAlone(t) /\ tasks[t].kind = "delete" /\ tasks[t].arg # pre.sessionId
        /\ pre.sessionId # NULL
        /\ pre.messages # <<>>
        /\ pre.lastSessionId = pre.sessionId
        /\ InList(pre.sessions, tasks[t].arg)
        /\ Len(pre.sessions) >= 2

\* C8: a sendUserMessage(text) in an active session, run alone, whose /chat
\* request succeeded with reply r ends with the message list extended by
\* {user, text} and {assistant, r}, in that order, and the same active id.
C8_SendAppendsUserThenAssistant ==
    \A t \in TaskIds :
        (FinishedAlone(t) /\ tasks[t].kind = "send" /\ tasks[t].sid # NULL /\ tasks[t].ok) =>
            /\ messages = pre.messages \o
                   <<[role |-> "user", content |-> tasks[t].text],
                     [role |-> "assistant", content |-> tasks[t].got[1].content]>>
            /\ sessionId = pre.sessionId

\* a message was sent and answered in a session that already had messages
C8_Witness ==
    \E t \in TaskIds :
        /\ FinishedAlone(t) /\ tasks[t].kind = "send" /\ tasks[t].sid # NULL /\ tasks[t].ok
        /\ pre.messages # <<>>
        /\ Len(messages) = Len(pre.messages) + 2

\* the step in which task t's createSession request, awaited inside
\* initializeSession, is answered
CreateSessionAnswered(t) ==
    /\ tasks[t].kind \in {"init", "send", "createNew"}
    /\ tasks[t].pc \in {"create", "init", "reinit"}
    /\ tasks'[t].pc # tasks[t].pc

\* the step in which task t's getSession request, awaited inside loadSession,
\* is answered
GetSessionAnswered(t) ==
    /\ tasks[t].kind = "load" /\ tasks[t].pc = "get"
    /\ tasks'[t].pc # "get"

\* C9: in the step in which initializeSession or loadSession succeeds and sets
\* the active session id, lastSessionId in local storage becomes that same id;
\* the step in which one of them fails leaves lastSessionId as it was.
C9_SuccessPersistsSessionId ==
    [][\A t \in TaskIds :
          /\ CreateSessionAnswered(t) =>
                IF tasks'[t].res # NULL
                THEN sessionId' = tasks'[t].res /\ lastSessionId' = tasks'[t].res
                ELSE lastSessionId' = lastSessionId
          /\ GetSessionAnswered(t) =>
                IF tasks'[t].ok
                THEN sessionId' = tasks[t].arg /\ lastSessionId' = tasks[t].arg
                ELSE lastSessionId' = lastSessionId]_vars

\* a session was created, another one was then loaded over it, and a third
\* call failed without touching local storage
C9_Witness ==
    \E t \in TaskIds, u \in TaskIds, v \in TaskIds :
        /\ tasks[t].kind = "init" /\ tasks[t].res # NULL
        /\ tasks[u].kind = "load" /\ tasks[u].ok /\ tasks[u].arg # tasks[t].res
        /\ tasks[v].kind \in {"init", "load"} /\ tasks[v].pc = "done" /\ ~tasks[v].ok
        /\ sessionId = tasks[u].arg
        /\ lastSessionId = tasks[u].arg

C11_SavePushesSettingsToContext ==
    [][handleSaveSettings =>
          /\ storage'["aiPersonality"] = selectedPersonality
          /\ storage'["backgroundTexts"] = backgroundItems
          /\ storage'["enabledTools"] = enabledTools
          /\ currentSettings'.personality = selectedPersonality
          /\ currentSettings'.background = backgroundItems]_vars

\* C12: every operation of the API client that got a response whose status
\* is not 2xx has thrown an error to its caller instead of returning a value.
C12_ApiRaisesOnHttpError ==
    (apiCall.op # "none" /\ apiCall.resp.fetched /\ ~response_ok(apiCall.resp)) =>
        apiCall.result.threw

\* the step in which task t's getAllSessions call, made by loadSession,
\* createNewSession or loadInitialData, returns
ListAnswered(t) ==
    /\ tasks[t].pc \in {"list", "relist"}
    /\ Len(tasks'[t].resps) = Len(tasks[t].resps) + 1

\* C13: getAllSessions never raises: in the step in which a refresh of the
\* summary list by loadSession, createNewSession or the mount effect is
\* answered, a failed request makes the summary list the mock list of the
\* sessions "1", "2", "3" in that order, a successful one makes it the
\* backend's list, and the caller goes on in both cases (the mount effect
\* with the restore of a stored session id).
C13_FailedListGivesMockSessions ==
    [][\A t \in TaskIds :
          ListAnswered(t) =>
              /\ sessions' = IF tasks'[t].resps[Len(tasks'[t].resps)] = "failed"
                             THEN <<MockId(1), MockId(2), MockId(3)>>
                             ELSE SeqOfSet(srvSessions)
              /\ tasks'[t].pc = IF tasks[t].kind = "loadInitial" /\ tasks[t].pc = "list"
                                    /\ lastSessionId # NULL
                                THEN "get" ELSE "done"]_vars

\* the mount effect got a failure for its list request, shows the mock list
\* and is restoring the stored session
C13_Witness ==
    \E t \in TaskIds :
        /\ tasks[t].kind = "loadInitial" /\ tasks[t].pc = "get"
        /\ tasks[t].resps = <<"ok", "failed">>
        /\ sessions = MockSessions
        /\ Len(sessions) = 3

\* the step in which task t's scrapeWebsite call returns or throws
ScrapeAnswered(t) ==
    /\ tasks[t].kind = "scrape" /\ tasks[t].pc = "scrape"
    /\ tasks'[t].pc = "done"

\* C14: in the step in which scrapeWebsite answers the settings panel that
\* called it, a response with status success and a non-empty background_items
\* list makes the background item list the items it held followed by exactly
\* those items in their order; any other outcome (a thrown error, status
\* error, no items) leaves the list as it was and sets a scrape error; and
\* isScraping is false after the step in every case.
C14_ScrapeAppendsItems ==
    [][\A t \in TaskIds :
          (ScrapeAnswered(t) /\ showSettings /\ tasks[t].arg = settingsMount) =>
              /\ IF tasks'[t].resps = <<"success">> /\ tasks'[t].got # <<>>
                 THEN backgroundItems' = backgroundItems \o tasks'[t].got
                 ELSE backgroundItems' = backgroundItems /\ scrapeError' # ""
              /\ isScraping' = FALSE]_vars

\* two scraped items were appended after an item the user had typed
C14_Witness ==
    \E t \in TaskIds :
        /\ tasks[t].kind = "scrape" /\ tasks[t].pc = "done"
        /\ tasks[t].resps = <<"success">>
        /\ tasks[t].got = <<"A", "B">>
        /\ showSettings /\ tasks[t].arg = settingsMount
        /\ backgroundItems = <<"bg", "A", "B">>
        /\ ~isScraping

\* task t is a sendUserMessage in an active session whose /chat request
\* failed as a missing session and whose re-initialization created a session
Recovered(t) ==
    /\ tasks[t].kind = "send" /\ tasks[t].sid # NULL /\ tasks[t].pc = "done"
    /\ Len(tasks[t].reqs) >= 2 /\ tasks[t].reqs[2].op = "POST /sessions"
    /\ tasks[t].res # NULL

\* C15: a sendUserMessage that recovered from a session-not-found failure
\* with a successful re-initialization has posted the user's text to /chat
\* once, with the expired id, and nothing after the POST /sessions; when it
\* finishes the active session id and lastSessionId are the newly created id,
\* not the expired one; and the sendUserMessage called next posts /chat with
\* the new id.
C15_RecoveryActivatesNewSession ==
    \A t \in TaskIds :
        Recovered(t) =>
            /\ tasks[t].reqs = <<Req("POST /chat", tasks[t].sid, tasks[t].text),
                                 Req("POST /sessions", NULL, "")>>
            /\ tasks[t].res # tasks[t].sid
            /\ FinishedAlone(t) =>
                   sessionId = tasks[t].res /\ lastSessionId = tasks[t].res
            /\ (t + 1 \in TaskIds /\ tasks[t + 1].kind = "send") =>
                   tasks[t + 1].reqs[1] =
                       Req("POST /chat", tasks[t].res, tasks[t + 1].text)

\* after a recovery from status 404 the next message was sent in the new
\* session and answered
C15_Witness ==
    \E t \in TaskIds :
        /\ Recovered(t) /\ tasks[t].resps[1] = "404"
        /\ t + 1 \in TaskIds
        /\ tasks[t + 1].kind = "send" /\ tasks[t + 1].ok
        /\ tasks[t + 1].reqs[1].sid = tasks[t].res
        /\ sessionId = tasks[t].res

\* C16: a sendUserMessage in an active session whose /chat request failed
\* otherwise than with status 404 (another status, a network error, a body
\* that is not JSON, JSON without a response field) has requested no new
\* session, and when it has run alone it ends with the message list extended
\* by the user message and exactly one error bubble and with the active
\* session id and lastSessionId as they were.
C16_OnlyStatus404Reinitializes ==
    \A t \in TaskIds :
        (/\ tasks[t].kind = "send" /\ tasks[t].sid # NULL
         /\ tasks[t].resps # <<>> /\ tasks[t].resps[1] = "failed") =>
            /\ \A i \in DOMAIN tasks[t].reqs : tasks[t].reqs[i].op # "POST /sessions"
            /\ FinishedAlone(t) =>
                   /\ Len(messages) = Len(pre.messages) + 2
                   /\ SubSeq(messages, 1, Len(pre.messages) + 1) =
                          Append(pre.messages, UserMessage(tasks[t].text))
                   /\ messages[Len(messages)].role = "assistant"
                   /\ sessionId = pre.sessionId
                   /\ lastSessionId = pre.lastSessionId

\* C17: after a handleSubmit of the chat page got status 404 from /chat for
\* the cached session id, every later handleSubmit posts /chat with another
\* session id than the expired one.
C17_SubmitAfter404UsesNewSession ==
    \A t1 \in TaskIds, t2 \in TaskIds :
        (/\ t1 < t2
         /\ tasks[t1].kind = "submit" /\ tasks[t2].kind = "submit"
         /\ tasks[t1].resps # <<>>
         /\ tasks[t1].resps[Len(tasks[t1].resps)] = "404") =>
            \A i \in DOMAIN tasks[t2].reqs :
                tasks[t2].reqs[i].op = "POST /chat" =>
                    tasks[t2].reqs[i].sid # tasks[t1].arg

\* C18: of the requests started through handleSubmit, handleSelectChat,
\* handleNewChat and handleDeleteChat at most one is outstanding at any time.
C18_OneUiRequestInFlight ==
    Cardinality({t \in Running :
                    tasks[t].kind \in {"submit", "load", "createNew", "delete"}}) <= 1

\* every request of task t was answered successfully
AllAnswered(t) ==
    /\ tasks[t].pc = "done"
    /\ Len(tasks[t].resps) = Len(tasks[t].reqs)
    /\ \A i \in DOMAIN tasks[t].resps : tasks[t].resps[i] = "ok"

\* C19: once the page's initializeAgent and the provider's loadInitialData
\* have both completed with every request answered successfully, and before
\* the user did anything, the active session id and lastSessionId are the id
\* the mount-time createSession returned.
C19_MountEndsInFreshSession ==
    \A t \in TaskIds, u \in TaskIds :
        (/\ tasks[t].kind = "initAgent" /\ AllAnswered(t)
         /\ tasks[u].kind = "loadInitial" /\ AllAnswered(u)
         /\ Cardinality(Started) = 2) =>
            /\ sessionId = tasks[t].res
            /\ lastSessionId = tasks[t].res

\* C20: whenever no request is outstanding, the message list the chat page
\* displays equals the message list of the context.
C20_PageMessagesMirrorContext ==
    Running = {} => pageMessages = messages

\* C21: in every step in which a POST /sessions request is sent (by the
\* page's mount initialization, by handleSubmit or by createNewSession), the
\* organization settings in its body are the personality, the background
\* items and the tool toggles that local storage holds in that step.
C21_CreationSendsStoredSettings ==
    [][\A t \in TaskIds :
          Len(tasks'[t].org) > Len(tasks[t].org) =>
              LET sent == tasks'[t].org[Len(tasks'[t].org)]
              IN /\ sent.personality = getPersonality(storage)
                 /\ sent.background = getBackgroundTexts(storage)
                 /\ sent.tools = getEnabledTools(storage)]_vars

\* the step in which task t's POST /chat request, sent by sendUserMessage in
\* an active session, is answered
ChatAnswered(t) ==
    /\ tasks[t].kind = "send" /\ tasks[t].pc = "chat"
    /\ tasks'[t].pc # "chat"

\* task u is a loadSession or createNewSession that made the session it
\* loaded or created the active one
Activated(u) ==
    /\ tasks[u].kind \in {"load", "createNew"} /\ tasks[u].ok
    /\ sessionId = (IF tasks[u].kind = "load" THEN tasks[u].arg ELSE tasks[u].res)

\* C22: when the /chat request of a sendUserMessage is answered (with a reply
\* or a failure) after a loadSession or createNewSession made another session
\* the active one, nothing is appended to the message list, which now shows
\* that other session.
C22_LateReplyNotShownInOtherSession ==
    [][\A t \in TaskIds :
          (/\ ChatAnswered(t)
           /\ sessionId # tasks[t].sid
           /\ \E u \in TaskIds : u > t /\ Activated(u)) => messages' = messages]_vars

\* the step in which task t's DELETE request, sent by deleteSessionById, is
\* answered
DeleteAnswered(t) ==
    /\ tasks[t].kind = "delete" /\ tasks[t].pc = "del"
    /\ tasks'[t].pc = "done"

\* C23: when the DELETE request of deleteSession(x) is answered after the
\* active session changed, the session active in that step decides: with
\* another session y active, the active id, the message list and
\* lastSessionId stay as they are; with x active and deleted, x is no longer
\* the active session after the step.
C23_DeleteDecidesByActiveSession ==
    [][\A t \in TaskIds :
          (DeleteAnswered(t) /\ sessionId # tasks[t].sid) =>
              IF sessionId # tasks[t].arg
              THEN /\ sessionId' = sessionId
                   /\ messages' = messages
                   /\ lastSessionId' = lastSessionId
              ELSE tasks'[t].ok => sessionId' # tasks[t].arg]_vars

\* C24: the step in which the DELETE request of a deleteSession is answered
\* with a failure (a status that is not 2xx, or no response) leaves the
\* summary list, the active id, the message list and lastSessionId as they
\* were.
C24_FailedDeleteChangesNothing ==
    [][\A t \in TaskIds :
          (DeleteAnswered(t) /\ ~tasks'[t].ok) =>
              /\ sessions' = sessions
              /\ sessionId' = sessionId
              /\ messages' = messages
              /\ lastSessionId' = lastSessionId]_vars

\* C25: whenever no operation is in progress and the context has an active
\* session id, lastSessionId in local storage is that id.
C25_StoredIdIsActiveId ==
    (Running = {} /\ sessionId # NULL) => lastSessionId = sessionId

\* task t is inside initializeSession, sendMessage or loadSession with a
\* request outstanding
Loading(t) ==
    \/ tasks[t].kind \in {"init", "send", "load"} /\ tasks[t].pc # "done"
    \/ tasks[t].kind \in {"initAgent", "createNew"} /\ tasks[t].pc = "create"
    \/ tasks[t].kind = "loadInitial" /\ tasks[t].pc \in {"get", "relist"}

\* C26: isLoading is true in every state in which an initializeSession,
\* sendMessage or loadSession has a request outstanding.
C26_LoadingWhileRequestOutstanding ==
    (\E t \in TaskIds : Loading(t)) => isLoading

\* C27: once two loadSession calls, the only calls made, have both completed
\* with their sessions fetched, the active id, the message list and
\* lastSessionId are those of the session requested last.
C27_LastRequestedLoadWins ==
    (/\ tasks[1].kind = "load" /\ tasks[2].kind = "load" /\ tasks[3].kind = "none"
     /\ tasks[1].ok /\ tasks[2].ok
     /\ tasks[1].pc = "done" /\ tasks[2].pc = "done") =>
        /\ sessionId = tasks[2].arg
        /\ messages = tasks[2].got
        /\ lastSessionId = tasks[2].arg

\* the step in which the createSession request of a session-not-found
\* recovery is answered
ReinitAnswered(t) ==
    /\ tasks[t].kind = "send" /\ tasks[t].pc = "reinit"
    /\ tasks'[t].pc = "done"

\* C28: the step in which the createSession request of a session-not-found
\* recovery fails appends no 'New session created' notice to the message
\* list.
C28_NoticeOnlyAfterNewSession ==
    [][\A t \in TaskIds :
          (ReinitAnswered(t) /\ tasks'[t].res = NULL) =>
              Count(messages', NewSessionMessage) = Count(messages, NewSessionMessage)]_vars

\* C29: when every backend request is eventually answered, every call of a
\* context operation eventually finishes, and in every state in which no
\* operation is outstanding isLoading is false.
C29_OperationsFinishAndStopLoading ==
    /\ \A t \in TaskIds : (tasks[t].kind # "none") ~> (tasks[t].pc = "done")
    /\ [](Running = {} => ~isLoading)

\* three operations have finished, one of them a loadSession whose getSession
\* failed and one a sendMessage whose recovery could not create a session,
\* and isLoading is false
C29_Witness ==
    /\ Running = {} /\ ~isLoading
    /\ Cardinality(Started) = 3
    /\ \E t \in Started : tasks[t].kind = "load" /\ ~tasks[t].ok
    /\ \E t \in Started :
           /\ tasks[t].kind = "send" /\ Len(tasks[t].reqs) = 2 /\ tasks[t].res = NULL

\* C30: the step in which the createSession request of an initializeSession
\* call fails ends the call without an error for its caller, leaves the
\* active session id, the message list, currentSettings, isInitialized and
\* lastSessionId as they were, and sets isLoading to false.
C30_FailedInitializeKeepsState ==
    [][\A t \in TaskIds :
          (tasks[t].kind = "init" /\ CreateSessionAnswered(t) /\ ~tasks'[t].ok) =>
              /\ tasks'[t].pc = "done"
              /\ UNCHANGED <<sessionId, messages, currentSettings, isInitialized,
                             lastSessionId>>
              /\ isLoading' = FALSE]_vars

\* an initializeSession failed in a session that has messages, and the
\* session is still the active one
C30_Witness ==
    \E t \in TaskIds :
        /\ tasks[t].kind = "init" /\ tasks[t].pc = "done" /\ ~tasks[t].ok
        /\ FinishedAlone(t)
        /\ sessionId # NULL /\ sessionId = pre.sessionId
        /\ messages # <<>> /\ messages = pre.messages
        /\ lastSessionId = sessionId
        /\ isInitialized /\ ~isLoading

====
